---------------------------- MODULE Spec2Model ----------------------------
(***************************************************************************)
(* Model of amplifier_module_tool_todo: the session-scoped todo list held  *)
(* in coordinator.todo_state and the TodoTool.execute handler (create,     *)
(* update, list, unknown action).                                          *)
(*                                                                         *)
(* Python values are records [t |-> <type name>, v |-> <payload>].  A dict *)
(* payload is a function from its keys to values, a list payload is a      *)
(* sequence.  A ToolResult is the record of the keyword arguments it was   *)
(* built with; a call that ends by raising is [raised |-> <exception>].    *)
(* An f-string is the sequence of its literal pieces and formatted values. *)
(***************************************************************************)
EXTENDS Integers, Sequences, FiniteSets, TLC

VARIABLES
  coordinator,  \* attributes of the session context (todo_state once attached)
  tools,        \* names registered in coordinator.mount_points["tools"]
  pc,           \* "new": nothing built; "ready": tool idle; "returned": a call ended
  input,        \* the input record of the call that ended
  prev,         \* the coordinator as it was when that call began
  result,       \* what that call returned or raised
  created,      \* <<T>> when the call before it was a successful create(T)
  written       \* TRUE once a create or update has succeeded

vars == <<coordinator, tools, pc, input, prev, result, created, written>>

\* Longest todos list the caller submits.
MaxLen == 2

----------------------------------------------------------------------------
(* Python values *)

PyNone == [t |-> "NoneType", v |-> <<>>]
PyStr(s) == [t |-> "str", v |-> s]
PyList(s) == [t |-> "list", v |-> s]
PyDict(f) == [t |-> "dict", v |-> f]

\* format() of a value inside an f-string
PyFormat(x) == IF x.t = "NoneType" THEN "None" ELSE x.v

\* len()
PyLen(x) == Len(x.v)

\* the empty function: an empty dict payload, and "no value yet"
Empty == <<>>

\* the list literals of the schema check
RequiredFields == <<"content", "status", "activeForm">>
ValidStatuses == <<PyStr("pending"), PyStr("in_progress"), PyStr("completed")>>

Range(s) == {s[j] : j \in DOMAIN s}

----------------------------------------------------------------------------
(* Inputs the host can submit *)

Item(c, s) == PyDict([content |-> PyStr(c), status |-> s, activeForm |-> PyStr("Running tests")])

ValidItems == {Item("Run tests", s) : s \in Range(ValidStatuses)}

InvalidItems ==
  { Item("Run tests", PyStr("bogus")),
    Item("Run tests", PyNone),
    PyDict([status |-> PyStr("pending"), activeForm |-> PyStr("Running tests")]),
    PyDict([content |-> PyStr("Run tests"), activeForm |-> PyStr("Running tests")]),
    PyDict([content |-> PyStr("Run tests"), status |-> PyStr("bogus")]) }

NonRecordItems ==
  { PyNone,
    PyList(<<>>),
    PyList(<<PyStr("content"), PyStr("status"), PyStr("activeForm")>>) }

Items == ValidItems \cup InvalidItems \cup NonRecordItems

SeqsUpTo(S, n) == UNION {[1..m -> S] : m \in 0..n}

TodosValues == {PyNone} \cup {PyList(s) : s \in SeqsUpTo(Items, MaxLen)}

ActionValues == {PyStr("create"), PyStr("update"), PyStr("list"), PyStr("delete"), PyNone}

Inputs ==
  {Empty}
  \cup {[action |-> a] : a \in ActionValues}
  \cup {[todos |-> td] : td \in TodosValues}
  \cup {[action |-> a, todos |-> td] : a \in ActionValues, td \in TodosValues}

----------------------------------------------------------------------------
(* Python helpers *)

\* dict.get(key, default)
Get(d, key, default) == IF key \in DOMAIN d THEN d[key] ELSE default

\* getattr(obj, name, default)
GetAttr(obj, name, default) == IF name \in DOMAIN obj THEN obj[name] ELSE default

\* iter(x) succeeds
Iterable(x) == x.t \in {"list", "dict", "str"}

\* `k in todo` is defined (otherwise TypeError)
SupportsIn(todo) == todo.t \in {"list", "dict"}

\* k in todo
Contains(k, todo) ==
  IF todo.t = "dict" THEN k \in DOMAIN todo.v
  ELSE \E j \in DOMAIN todo.v : todo.v[j] = PyStr(k)

\* todo["status"] is defined for a dict holding the key (otherwise TypeError/KeyError)
SupportsStrIndex(todo) == todo.t = "dict"

ToolResultOk(out) == [success |-> TRUE, output |-> out]
ToolResultErr(msg) == [success |-> FALSE, error |-> [message |-> msg]]
Raised(exc) == [raised |-> exc]

MissingFieldsMessage(i) ==
  <<"Todo ", ToString(i), " ", "missing required fields", " (content, status, activeForm)">>

InvalidStatusMessage(i, status) ==
  <<"Todo ", ToString(i), " has ", "invalid status", ": ", PyFormat(status)>>

\* variant: the message leaves out the offending value
UnknownActionMessage_NoValue(action) ==
  <<"Unknown action", ". Valid actions: ", "create", ", ", "update", ", ", "list">>

UnknownActionMessage(action) ==
  <<"Unknown action: ", PyFormat(action), ". Valid actions: ", "create", ", ", "update", ", ", "list">>

\* variant: the status is looked at before the required fields
ValidateItem_StatusFirst(i, todo) ==
  IF ~SupportsIn(todo) THEN Raised("TypeError")
  ELSE IF /\ SupportsStrIndex(todo)
          /\ Contains("status", todo)
          /\ todo.v["status"] \notin Range(ValidStatuses)
       THEN ToolResultErr(InvalidStatusMessage(i, todo.v["status"]))
  ELSE IF ~(\A j \in DOMAIN RequiredFields : Contains(RequiredFields[j], todo))
       THEN ToolResultErr(MissingFieldsMessage(i))
  ELSE IF ~SupportsStrIndex(todo) THEN Raised("TypeError")
  ELSE Empty

\* variant: the status value is never compared with the allowed ones
ValidateItem_NoStatusCheck(i, todo) ==
  IF ~SupportsIn(todo) THEN Raised("TypeError")
  ELSE IF ~(\A j \in DOMAIN RequiredFields : Contains(RequiredFields[j], todo))
       THEN ToolResultErr(MissingFieldsMessage(i))
  ELSE IF ~SupportsStrIndex(todo) THEN Raised("TypeError")
  ELSE Empty

\* One pass of the body of the validation loop on enumerate() pair (i, todo):
\* Empty when the item passes, otherwise the result that ends the call.
ValidateItem(i, todo) ==
  IF ~SupportsIn(todo) THEN Raised("TypeError")
  ELSE IF ~(\A j \in DOMAIN RequiredFields : Contains(RequiredFields[j], todo))
       THEN ToolResultErr(MissingFieldsMessage(i))
  ELSE IF ~SupportsStrIndex(todo) THEN Raised("TypeError")
  ELSE IF todo.v["status"] \notin Range(ValidStatuses)
       THEN ToolResultErr(InvalidStatusMessage(i, todo.v["status"]))
  ELSE Empty

\* variant: the loop stops after its first pass
ValidateFrom_FirstOnly(todos, j) ==
  IF j > Len(todos.v) THEN Empty ELSE ValidateItem(j - 1, todos.v[j])

\* for i, todo in enumerate(todos): ... starting at sequence position j
\* (enumerate index i = j - 1); Empty when the loop runs to its end.
RECURSIVE ValidateFrom(_, _)
ValidateFrom(todos, j) ==
  IF j > Len(todos.v) THEN Empty
  ELSE LET r == ValidateItem(j - 1, todos.v[j])
       IN IF r # Empty THEN r ELSE ValidateFrom(todos, j + 1)

Validate(todos) ==
  IF ~Iterable(todos) THEN Raised("TypeError") ELSE ValidateFrom(todos, 1)

\* variant: the scan stops one item short
RECURSIVE CountStatus_SkipLast(_, _, _)
CountStatus_SkipLast(todos, status, j) ==
  IF j >= Len(todos.v) THEN 0
  ELSE (IF todos.v[j].v["status"] = PyStr(status) THEN 1 ELSE 0)
       + CountStatus_SkipLast(todos, status, j + 1)

\* sum(1 for t in todos if t["status"] == status)
RECURSIVE CountStatus(_, _, _)
CountStatus(todos, status, j) ==
  IF j > Len(todos.v) THEN 0
  ELSE (IF todos.v[j].v["status"] = PyStr(status) THEN 1 ELSE 0)
       + CountStatus(todos, status, j + 1)

\* Each branch yields the coordinator after the call and the call's result.
Outcome(c, r) == [coordinator |-> c, result |-> r]

SetAttr(obj, name, val) ==
  [n \in DOMAIN obj \cup {name} |-> IF n = name THEN val ELSE obj[n]]

\* variant: an empty list is reported as created but not stored
Create_SkipEmpty(c, inp) ==
  LET todos == Get(inp, "todos", PyList(<<>>))
      bad == Validate(todos)
  IN IF bad # Empty THEN Outcome(c, bad)
     ELSE Outcome(IF PyLen(todos) = 0 THEN c ELSE SetAttr(c, "todo_state", todos),
                  ToolResultOk([status |-> "created", count |-> PyLen(todos), todos |-> todos]))

Create(c, inp) ==
  LET todos == Get(inp, "todos", PyList(<<>>))
      bad == Validate(todos)
  IN IF bad # Empty THEN Outcome(c, bad)
     ELSE Outcome(SetAttr(c, "todo_state", todos),
                  ToolResultOk([status |-> "created", count |-> PyLen(todos), todos |-> todos]))

\* variant: the accepted items are appended to the stored ones
Update_Merge(c, inp) ==
  LET todos == Get(inp, "todos", PyList(<<>>))
      bad == Validate(todos)
      merged == PyList(GetAttr(c, "todo_state", PyList(<<>>)).v \o todos.v)
  IN IF bad # Empty THEN Outcome(c, bad)
     ELSE Outcome(SetAttr(c, "todo_state", merged),
                  ToolResultOk([status |-> "updated",
                                count |-> PyLen(todos),
                                pending |-> CountStatus(todos, "pending", 1),
                                in_progress |-> CountStatus(todos, "in_progress", 1),
                                completed |-> CountStatus(todos, "completed", 1)]))

Update(c, inp) ==
  LET todos == Get(inp, "todos", PyList(<<>>))
      bad == Validate(todos)
  IN IF bad # Empty THEN Outcome(c, bad)
     ELSE Outcome(SetAttr(c, "todo_state", todos),
                  ToolResultOk([status |-> "updated",
                                count |-> PyLen(todos),
                                pending |-> CountStatus(todos, "pending", 1),
                                in_progress |-> CountStatus(todos, "in_progress", 1),
                                completed |-> CountStatus(todos, "completed", 1)]))

\* variant: a todos field given to list is stored
List_TakesTodos(c, inp) ==
  LET c2 == IF "todos" \in DOMAIN inp THEN SetAttr(c, "todo_state", inp["todos"]) ELSE c
      todo_state == GetAttr(c2, "todo_state", PyList(<<>>))
  IN Outcome(c2, ToolResultOk([status |-> "listed", count |-> Len(todo_state.v), todos |-> todo_state]))

\* variant: the attribute is read without a default
List_NoDefault(c, inp) ==
  IF "todo_state" \notin DOMAIN c THEN Outcome(c, Raised("AttributeError"))
  ELSE Outcome(c, ToolResultOk([status |-> "listed", count |-> PyLen(c["todo_state"]), todos |-> c["todo_state"]]))

List(c, inp) ==
  LET todo_state == GetAttr(c, "todo_state", PyList(<<>>))
  IN Outcome(c, ToolResultOk([status |-> "listed", count |-> PyLen(todo_state), todos |-> todo_state]))

Unknown(c, action) == Outcome(c, ToolResultErr(UnknownActionMessage(action)))

execute(c, inp) ==
  LET action == Get(inp, "action", PyNone)
  IN IF action = PyStr("create") THEN Create(c, inp)
     ELSE IF action = PyStr("update") THEN Update(c, inp)
     ELSE IF action = PyStr("list") THEN List(c, inp)
     ELSE Unknown(c, action)

----------------------------------------------------------------------------
(* State machine *)

Init ==
  /\ coordinator = Empty
  /\ tools = {}
  /\ pc = "new"
  /\ input = Empty
  /\ prev = Empty
  /\ result = Empty
  /\ created = <<>>
  /\ written = FALSE

\* mount(coordinator): attach an empty todo_state, build the tool, register it
Mount ==
  /\ pc = "new"
  /\ coordinator' = SetAttr(coordinator, "todo_state", PyList(<<>>))
  /\ tools' = tools \cup {"todo"}
  /\ prev' = coordinator'
  /\ pc' = "ready"
  /\ UNCHANGED <<input, result, created, written>>

\* TodoTool(coordinator) built on a context that was never given a todo_state
Construct ==
  /\ pc = "new"
  /\ pc' = "ready"
  /\ UNCHANGED <<coordinator, tools, input, prev, result, created, written>>

\* await tool.execute(inp): the whole handler, on any input record
Execute ==
  /\ pc = "ready"
  /\ \E inp \in Inputs :
       LET o == execute(coordinator, inp)
       IN /\ coordinator' = o.coordinator
          /\ result' = o.result
          /\ input' = inp
          /\ written' = (written \/ (/\ Get(inp, "action", PyNone) \in {PyStr("create"), PyStr("update")}
                                     /\ "success" \in DOMAIN o.result
                                     /\ o.result.success))
  /\ prev' = coordinator
  /\ pc' = "returned"
  /\ UNCHANGED <<tools, created>>

\* the host takes the result (or the exception) and is free to call again
HostReceive ==
  /\ pc = "returned"
  /\ pc' = "ready"
  /\ created' = IF /\ Get(input, "action", PyNone) = PyStr("create")
                   /\ "todos" \in DOMAIN input
                   /\ "success" \in DOMAIN result
                   /\ result.success
                THEN <<input.todos>>
                ELSE <<>>
  /\ input' = Empty
  /\ result' = Empty
  /\ prev' = coordinator
  /\ UNCHANGED <<coordinator, tools, written>>

Next ==
  \/ Mount
  \/ Construct
  \/ Execute
  \/ HostReceive

Spec == Init /\ [][Next]_vars

TypeOK ==
  /\ pc \in {"new", "ready", "returned"}
  /\ tools \subseteq {"todo"}
  /\ DOMAIN coordinator \subseteq {"todo_state"}

----------------------------------------------------------------------------
(* Vocabulary of the properties *)

Returned == pc = "returned"

CallAction == Get(input, "action", PyNone)

IsSuccess(r) == "success" \in DOMAIN r /\ r.success /\ "output" \in DOMAIN r

IsFailure(r) ==
  /\ "success" \in DOMAIN r
  /\ ~r.success
  /\ "error" \in DOMAIN r
  /\ "message" \in DOMAIN r.error

HasRaised(r) == "raised" \in DOMAIN r

IsRecord(x) == x.t = "dict"

MissingField(x) == ~({"content", "status", "activeForm"} \subseteq DOMAIN x.v)

AllowedStatus == {PyStr("pending"), PyStr("in_progress"), PyStr("completed")}

\* a TodoItem: a record with the three fields and an allowed status
WellFormed(x) == IsRecord(x) /\ ~MissingField(x) /\ x.v["status"] \in AllowedStatus

RecordList(td) == td.t = "list" /\ \A j \in DOMAIN td.v : IsRecord(td.v[j])

WellFormedList(td) == td.t = "list" /\ \A j \in DOMAIN td.v : WellFormed(td.v[j])

\* the stored list; an absent attribute reads as the empty list
StoreOf(c) == IF "todo_state" \in DOMAIN c THEN c["todo_state"] ELSE PyList(<<>>)

\* a create or update call whose todos are records, at least one not well formed
RejectedCall ==
  /\ Returned
  /\ CallAction \in {PyStr("create"), PyStr("update")}
  /\ "todos" \in DOMAIN input
  /\ RecordList(input.todos)
  /\ \E j \in DOMAIN input.todos.v : ~WellFormed(input.todos.v[j])

FirstBad(td) == CHOOSE j \in DOMAIN td.v :
                  /\ ~WellFormed(td.v[j])
                  /\ \A k \in 1..(j - 1) : WellFormed(td.v[k])

\* how many items of td have status st
Tally(td, st) == Cardinality({j \in DOMAIN td.v : td.v[j].v["status"] = PyStr(st)})

A == Item("Run tests", PyStr("pending"))
B == Item("Run tests", PyStr("in_progress"))
C == Item("Run tests", PyStr("completed"))
Bogus == Item("Run tests", PyStr("bogus"))

----------------------------------------------------------------------------
(* Properties *)

\* C1: a create or update whose todos (a sequence of records) hold an item
\* that misses a required field or has a status outside the three allowed
\* values, at any position, returns a failure and leaves the store as it was.
AllOrNothing == RejectedCall => (IsFailure(result) /\ coordinator = prev)

\* C1 witness: create([A, Bogus]) on a store holding [B, C] has failed.
AllOrNothingWitness ==
  /\ RejectedCall
  /\ CallAction = PyStr("create")
  /\ input.todos = PyList(<<A, Bogus>>)
  /\ prev = [todo_state |-> PyList(<<B, C>>)]
  /\ IsFailure(result)
  /\ coordinator = prev

\* C2: a list call that directly follows a successful create(T), T a
\* sequence of well-formed items, returns exactly T with count Len(T).
CreateThenList ==
  (/\ Returned
   /\ CallAction = PyStr("list")
   /\ created # <<>>
   /\ WellFormedList(created[1]))
  => (/\ IsSuccess(result)
      /\ result.output.todos = created[1]
      /\ result.output.count = Len(created[1].v))

\* C2 witness: list directly after create([B, B]), a list with a duplicate.
CreateThenListWitness ==
  /\ Returned
  /\ CallAction = PyStr("list")
  /\ created = <<PyList(<<B, B>>)>>
  /\ IsSuccess(result)
  /\ result.output.count = 2

\* C3: after a successful update(T) the store is exactly T, whatever it held.
UpdateReplaces ==
  (Returned /\ CallAction = PyStr("update") /\ IsSuccess(result))
  => (/\ "todo_state" \in DOMAIN coordinator
      /\ coordinator["todo_state"] = Get(input, "todos", PyList(<<>>)))

\* C3 witness: update([C]) on a store holding [A, B] leaves [C].
UpdateReplacesWitness ==
  /\ Returned
  /\ CallAction = PyStr("update")
  /\ prev = [todo_state |-> PyList(<<A, B>>)]
  /\ "todos" \in DOMAIN input
  /\ input.todos = PyList(<<C>>)
  /\ IsSuccess(result)
  /\ coordinator = [todo_state |-> PyList(<<C>>)]

\* C4: every call ends with a success or a failure envelope, never by raising.
NoExceptionEscapes == Returned => (IsSuccess(result) \/ IsFailure(result))

\* C5: the tallies of a successful update(T) are the numbers of items of T
\* with each status, count is Len(T), and the tallies sum to count.
UpdateTallies ==
  (Returned /\ CallAction = PyStr("update") /\ IsSuccess(result))
  => LET td == Get(input, "todos", PyList(<<>>))
         out == result.output
     IN /\ out.pending = Tally(td, "pending")
        /\ out.in_progress = Tally(td, "in_progress")
        /\ out.completed = Tally(td, "completed")
        /\ out.count = Len(td.v)
        /\ out.pending + out.in_progress + out.completed = out.count

\* C5 witness: update([A, A]) has returned pending = 2.
UpdateTalliesWitness ==
  /\ Returned
  /\ CallAction = PyStr("update")
  /\ "todos" \in DOMAIN input
  /\ input.todos = PyList(<<A, A>>)
  /\ IsSuccess(result)
  /\ result.output.pending = 2

\* C6: an action outside create, update, list (or none at all) yields a
\* failure whose message holds the offending value and the three valid names.
UnknownActionFails ==
  (Returned /\ CallAction \notin {PyStr("create"), PyStr("update"), PyStr("list")})
  => (/\ IsFailure(result)
      /\ PyFormat(CallAction) \in Range(result.error.message)
      /\ {"create", "update", "list"} \subseteq Range(result.error.message))

\* C6 witness: action "delete" with a todos field, on a store holding [A].
UnknownActionFailsWitness ==
  /\ Returned
  /\ CallAction = PyStr("delete")
  /\ "todos" \in DOMAIN input
  /\ prev = [todo_state |-> PyList(<<A>>)]
  /\ IsFailure(result)

\* C7: a call whose action is list or unrecognized leaves the store as it
\* was, todos field or not; a store that changed was changed by create or update.
ReadOnlyActions ==
  (Returned /\ CallAction \notin {PyStr("create"), PyStr("update")})
  => coordinator = prev

\* C7 witness: list with todos = [C] on a store holding [A, B].
ReadOnlyActionsWitness ==
  /\ Returned
  /\ CallAction = PyStr("list")
  /\ "todos" \in DOMAIN input
  /\ input.todos = PyList(<<C>>)
  /\ prev = [todo_state |-> PyList(<<A, B>>)]
  /\ coordinator = prev

\* C8: list always succeeds with the store's contents and their length; with
\* no successful create or update so far, or with no todo_state attribute,
\* it returns count 0 and the empty list.
ListNeverFails ==
  (Returned /\ CallAction = PyStr("list"))
  => (/\ IsSuccess(result)
      /\ result.output.todos = StoreOf(prev)
      /\ result.output.count = Len(StoreOf(prev).v)
      /\ (~written \/ "todo_state" \notin DOMAIN prev)
           => (result.output.count = 0 /\ result.output.todos = PyList(<<>>)))

\* C8 witness: list on a context that has no todo_state attribute.
ListNeverFailsWitness ==
  /\ Returned
  /\ CallAction = PyStr("list")
  /\ "todo_state" \notin DOMAIN prev
  /\ tools = {}
  /\ IsSuccess(result)
  /\ result.output.count = 0

\* C9: the failure of a rejected create or update names the 0-based index of
\* the first item that is not well formed, with "missing required fields" if
\* that item lacks a field, else "invalid status" and the offending value.
FailureNamesFirstBad ==
  RejectedCall
  => LET j == FirstBad(input.todos)
         bad == input.todos.v[j]
         msg == result.error.message
     IN /\ IsFailure(result)
        /\ msg[1] = "Todo " /\ msg[2] = ToString(j - 1)
        /\ IF MissingField(bad)
           THEN "missing required fields" \in Range(msg) /\ "invalid status" \notin Range(msg)
           ELSE /\ "invalid status" \in Range(msg)
                /\ "missing required fields" \notin Range(msg)
                /\ msg[Len(msg)] = PyFormat(bad.v["status"])

\* C9 witness: update([A, <no activeForm, status bogus>]) failed on index 1.
FailureNamesFirstBadWitness ==
  /\ RejectedCall
  /\ CallAction = PyStr("update")
  /\ input.todos = PyList(<<A, PyDict([content |-> PyStr("Run tests"), status |-> PyStr("bogus")])>>)
  /\ IsFailure(result)
  /\ result.error.message[2] = "1"

\* C10: every item held in the store is well formed, in every reachable state.
StoreValid == WellFormedList(StoreOf(coordinator))

\* C10 witness: a call with an item of status bogus has ended on a store of two items.
StoreValidWitness ==
  /\ RejectedCall
  /\ \E j \in DOMAIN input.todos.v : input.todos.v[j] = Bogus
  /\ Len(StoreOf(coordinator).v) = 2

=============================================================================
